---- MODULE Spec2Model ----
(***************************************************************************)
(* TaskWeb: the today-task tracker (src/today_tasks.py) and the workflow   *)
(* persistence endpoint (src/workflow_server.py).                          *)
(*                                                                         *)
(* Four specifications over one set of variables:                          *)
(*   SpecDue    parse_due_key applied to one due value                     *)
(*   SpecSort   sort_tasks / the ordering of cmd_list on one collection    *)
(*   Spec       the store file under the commands and a terminal-UI run    *)
(*   SpecHttp   the /api/workflow handlers (SpecHttpFault: with storage    *)
(*              faults on the write)                                       *)
(* Strings are sequences of one-character strings.                         *)
(***************************************************************************)
EXTENDS Integers, Sequences, FiniteSets

VARIABLES
    dueCase, dueIn, dueKey,          \* SpecDue: the drawn case, its text, the key
    sortIn, sortOut, sortBy,         \* SpecSort: input, output, which code sorted
    file, ui, uiTasks, last,         \* Spec: store file, UI run, its copy, outcome
    retired,                         \* Spec: the ids the remove command has removed
    docFile, lastOk, resp            \* SpecHttp: workflow.json, last 204 body, response

vars == <<dueCase, dueIn, dueKey, sortIn, sortOut, sortBy,
          file, ui, uiTasks, last, retired, docFile, lastOk, resp>>

(***************************************************************************)
(* Optional strings: Python's None, or a str.                              *)
(***************************************************************************)
None == [isNone |-> TRUE, s |-> <<>>]
Some(s) == [isNone |-> FALSE, s |-> s]

DigitChars == <<"0", "1", "2", "3", "4", "5", "6", "7", "8", "9">>
Digits == {DigitChars[i] : i \in 1..10}
IsDigit(c) == c \in Digits
DigitVal(c) == (CHOOSE i \in 1..10 : DigitChars[i] = c) - 1

\* str.upper() on the alphabet used here
UpperChar(c) ==
    CASE c = "a" -> "A"
      [] c = "m" -> "M"
      [] c = "p" -> "P"
      [] c = "w" -> "W"
      [] c = "b" -> "B"
      [] OTHER -> c
Upper(s) == [i \in 1..Len(s) |-> UpperChar(s[i])]

\* str.strip(): leading and trailing whitespace removed
IsSpace(c) == c = " "
Strip(s) ==
    LET keep == {i \in 1..Len(s) : ~IsSpace(s[i])}
    IN IF keep = {} THEN <<>>
       ELSE LET lo == CHOOSE i \in keep : \A j \in keep : i <= j
                hi == CHOOSE i \in keep : \A j \in keep : j <= i
            IN SubSeq(s, lo, hi)

(***************************************************************************)
(* datetime.strptime for the directives %H %I %M %p and literal text.      *)
(* Each directive is a regex alternation tried in order with backtracking; *)
(* the match must then end at the end of the string.                       *)
(***************************************************************************)
TwoDigitsAt(s, p) == p + 1 <= Len(s) /\ IsDigit(s[p]) /\ IsDigit(s[p + 1])
TwoVal(s, p) == 10 * DigitVal(s[p]) + DigitVal(s[p + 1])
OneDigitAt(s, p) == p <= Len(s) /\ IsDigit(s[p])

\* the candidates <<value, length>> of a directive at position p, in regex order
DirectiveCands(d, s, p) ==
    CASE d = "H" ->   \* 2[0-3] | [0-1]\d | \d
           (IF TwoDigitsAt(s, p) /\ s[p] = "2" /\ s[p + 1] \in {"0", "1", "2", "3"}
              THEN << <<TwoVal(s, p), 2>> >> ELSE <<>>)
           \o (IF TwoDigitsAt(s, p) /\ s[p] \in {"0", "1"}
              THEN << <<TwoVal(s, p), 2>> >> ELSE <<>>)
           \o (IF OneDigitAt(s, p) THEN << <<DigitVal(s[p]), 1>> >> ELSE <<>>)
      [] d = "M" ->   \* [0-5]\d | \d
           (IF TwoDigitsAt(s, p) /\ s[p] \in {"0", "1", "2", "3", "4", "5"}
              THEN << <<TwoVal(s, p), 2>> >> ELSE <<>>)
           \o (IF OneDigitAt(s, p) THEN << <<DigitVal(s[p]), 1>> >> ELSE <<>>)
      [] d = "I" ->   \* 1[0-2] | 0[1-9] | [1-9]
           (IF TwoDigitsAt(s, p) /\ s[p] = "1" /\ s[p + 1] \in {"0", "1", "2"}
              THEN << <<TwoVal(s, p), 2>> >> ELSE <<>>)
           \o (IF TwoDigitsAt(s, p) /\ s[p] = "0" /\ s[p + 1] # "0"
              THEN << <<TwoVal(s, p), 2>> >> ELSE <<>>)
           \o (IF OneDigitAt(s, p) /\ s[p] # "0"
              THEN << <<DigitVal(s[p]), 1>> >> ELSE <<>>)
      [] d = "p" ->   \* am | pm, ignoring case; value 0 for AM, 1 for PM
           (IF p + 1 <= Len(s) /\ UpperChar(s[p]) \in {"A", "P"}
                 /\ UpperChar(s[p + 1]) = "M"
              THEN << <<IF UpperChar(s[p]) = "P" THEN 1 ELSE 0, 2>> >> ELSE <<>>)

NoMatch == [ok |-> FALSE, end |-> 0, H |-> 0, I |-> 0, M |-> 0, p |-> 0]

RECURSIVE MatchFrom(_, _, _, _, _)
RECURSIVE FirstCand(_, _, _, _, _, _, _)
\* the regex match of items k.. of fmt at position p of s; acc holds the groups
MatchFrom(fmt, k, s, p, acc) ==
    IF k > Len(fmt) THEN [acc EXCEPT !.ok = TRUE, !.end = p]
    ELSE IF fmt[k] \in {"H", "I", "M", "p"}
         THEN FirstCand(DirectiveCands(fmt[k], s, p), 1, fmt, k, s, p, acc)
         ELSE IF p <= Len(s) /\ s[p] = fmt[k]
              THEN MatchFrom(fmt, k + 1, s, p + 1, acc)
              ELSE NoMatch
FirstCand(cands, j, fmt, k, s, p, acc) ==
    IF j > Len(cands) THEN NoMatch
    ELSE LET r == MatchFrom(fmt, k + 1, s, p + cands[j][2],
                            [acc EXCEPT ![fmt[k]] = cands[j][1]])
         IN IF r.ok THEN r ELSE FirstCand(cands, j + 1, fmt, k, s, p, acc)

\* strptime(s, fmt): ValueError (ok = FALSE), or the hour and minute of the result
strptime(s, fmt) ==
    LET r == MatchFrom(fmt, 1, s, 1,
                       [ok |-> FALSE, end |-> 0, H |-> 0, I |-> 0, M |-> 0, p |-> 0])
        has(d) == \E k \in 1..Len(fmt) : fmt[k] = d
        hour == IF has("H") THEN r.H
                ELSE IF r.p = 1 THEN (IF r.I # 12 THEN r.I + 12 ELSE r.I)
                     ELSE (IF r.I = 12 THEN 0 ELSE r.I)
    IN IF ~r.ok \/ r.end # Len(s) + 1
       THEN [ok |-> FALSE, hour |-> 0, minute |-> 0]
       ELSE [ok |-> TRUE, hour |-> hour, minute |-> r.M]

RankNoDue == 999999
RankUnparsed == 999998

\* the formats tried, in order: "%H:%M", "%I:%M%p", "%I%p"
DueFormats == << <<"H", ":", "M">>, <<"I", ":", "M", "p">>, <<"I", "p">> >>

RECURSIVE TryFormats(_, _)
TryFormats(s, i) ==
    IF i > Len(DueFormats) THEN <<RankUnparsed, s>>
    ELSE LET dt == strptime(Upper(s), DueFormats[i])
         IN IF dt.ok THEN <<dt.hour * 60 + dt.minute, s>>
            ELSE TryFormats(s, i + 1)

\* parse_due_key(due): <<rank, tiebreak string>>
parse_due_key_unstripped(due) ==
    IF due.isNone \/ due.s = <<>> THEN <<RankNoDue, <<>>>>
    ELSE TryFormats(due.s, 1)
parse_due_key(due) ==
    IF due.isNone \/ due.s = <<>> THEN <<RankNoDue, <<>>>>
    ELSE TryFormats(Strip(due.s), 1)

(***************************************************************************)
(* SpecDue: one due value is drawn and parse_due_key is applied to it.     *)
(* A case says how the text is written: a clock time h:m in one of the     *)
(* three formats (zero-padded or not, upper or lower case, with or without *)
(* surrounding blanks), no value, the empty string, or another string.     *)
(***************************************************************************)
JunkStrings ==
    << <<"w", "h", "e", "n", "e", "v", "e", "r">>,
       <<"2", "4", ":", "0", "0">>,
       <<"0", "P", "M">>,
       <<"1", "3", "P", "M">>,
       <<"1", "4", ":", "3", "0", "P", "M">>,
       <<"2", " ", "P", "M">>,
       <<"1", "4", "3", "0">>,
       <<"9", ":", "6", "0">>,
       <<" ", " ">>,
       <<"2", "P">>,
       <<"0", ":", "0", "0", "A", "M">>,
       <<"0", "0", "9", ":", "0", "5">>,
       <<"9", ":", "0", "0", "5">>,
       <<":", "3", "0">>,
       <<"1", "2", ":", "0", "0", "x">>,
       <<"P", "M">> >>

SampleMinutes == {0, 5, 30, 59}
DueCases ==
    [kind : {"h24"}, h : 0..23, m : SampleMinutes, pm : {FALSE}, lower : {FALSE},
     padH : BOOLEAN, padM : BOOLEAN, ws : BOOLEAN, junk : {0}]
    \cup [kind : {"h12m"}, h : 1..12, m : SampleMinutes, pm : BOOLEAN, lower : BOOLEAN,
          padH : BOOLEAN, padM : BOOLEAN, ws : {FALSE}, junk : {0}]
    \cup [kind : {"h12"}, h : 1..12, m : {0}, pm : BOOLEAN, lower : BOOLEAN,
          padH : BOOLEAN, padM : {FALSE}, ws : BOOLEAN, junk : {0}]
    \cup [kind : {"absent", "empty"}, h : {0}, m : {0}, pm : {FALSE}, lower : {FALSE},
          padH : {FALSE}, padM : {FALSE}, ws : {FALSE}, junk : {0}]
    \cup [kind : {"junk"}, h : {0}, m : {0}, pm : {FALSE}, lower : {FALSE},
          padH : {FALSE}, padM : {FALSE}, ws : {FALSE}, junk : 1..Len(JunkStrings)]

\* the decimal digits of n < 100, zero-padded to two on request
Decimal(n, pad) ==
    IF n >= 10 \/ pad THEN <<DigitChars[(n \div 10) + 1], DigitChars[(n % 10) + 1]>>
    ELSE <<DigitChars[n + 1]>>
Meridiem(c) ==
    IF c.lower THEN (IF c.pm THEN <<"p", "m">> ELSE <<"a", "m">>)
    ELSE (IF c.pm THEN <<"P", "M">> ELSE <<"A", "M">>)
Blanks(c, s) == IF c.ws THEN <<" ">> \o s \o <<" ">> ELSE s
\* the due value a case stands for
CaseText(c) ==
    CASE c.kind = "absent" -> None
      [] c.kind = "empty" -> Some(<<>>)
      [] c.kind = "junk" -> Some(JunkStrings[c.junk])
      [] c.kind = "h24" ->
           Some(Blanks(c, Decimal(c.h, c.padH) \o <<":">> \o Decimal(c.m, c.padM)))
      [] c.kind = "h12m" ->
           Some(Blanks(c, Decimal(c.h, c.padH) \o <<":">> \o Decimal(c.m, c.padM)
                          \o Meridiem(c)))
      [] c.kind = "h12" -> Some(Blanks(c, Decimal(c.h, c.padH) \o Meridiem(c)))

Unset == <<-1, <<>>>>
IdleCase == [kind |-> "absent", h |-> 0, m |-> 0, pm |-> FALSE, lower |-> FALSE,
             padH |-> FALSE, padM |-> FALSE, ws |-> FALSE, junk |-> 0]

DueIdle == dueCase = IdleCase /\ dueIn = None /\ dueKey = Unset
DueVars == <<dueCase, dueIn, dueKey>>

ParseDue ==
    /\ dueKey = Unset
    /\ dueKey' = parse_due_key(dueIn)
    /\ UNCHANGED <<dueCase, dueIn>>

(***************************************************************************)
(* Ordering of keys as Python orders tuples (bool, int, str).              *)
(***************************************************************************)
\* the characters used, in code point order
CharOrder ==
    <<" ", "0", "1", "2", "3", "4", "5", "6", "7", "8", "9", ":",
      "A", "B", "M", "P", "W", "a", "b", "e", "h", "m", "n", "o", "p", "r", "s",
      "v", "w", "x">>
Ord(c) == CHOOSE i \in 1..Len(CharOrder) : CharOrder[i] = c

RECURSIVE StrLess(_, _)
\* a < b for str
StrLess(a, b) ==
    IF b = <<>> THEN FALSE
    ELSE IF a = <<>> THEN TRUE
    ELSE IF Head(a) = Head(b) THEN StrLess(Tail(a), Tail(b))
    ELSE Ord(Head(a)) < Ord(Head(b))

\* a < b for the key tuples (done, rank, text)
KeyLess(a, b) ==
    \/ (~a[1] /\ b[1])
    \/ a[1] = b[1] /\ a[2] < b[2]
    \/ a[1] = b[1] /\ a[2] = b[2] /\ StrLess(a[3], b[3])

RECURSIVE InsertIndex(_, _, _)
\* index i placed into the ordered index list: after every index whose key is not greater
InsertIndex(order, i, keys) ==
    IF order = <<>> THEN <<i>>
    ELSE IF KeyLess(keys[i], keys[Head(order)]) THEN <<i>> \o order
    ELSE <<Head(order)>> \o InsertIndex(Tail(order), i, keys)

RECURSIVE StableOrder(_, _)
\* the indices 1..n of keys in the order sorted() gives (a stable sort)
StableOrder(keys, n) ==
    IF n = 0 THEN <<>>
    ELSE InsertIndex(StableOrder(keys, n - 1), n, keys)

\* sorted(items, key=...) given the key of each item
sorted(items, keys) ==
    LET order == StableOrder(keys, Len(items))
    IN [j \in 1..Len(items) |-> items[order[j]]]

\* lambda t: (t["done"],) + parse_due_key(t.get("due")), in sort_tasks
SortKeyNoDone(t) == <<FALSE>> \o parse_due_key(t.due)
SortKey(t) == <<t.done>> \o parse_due_key(t.due)
sort_tasks(tasks) == sorted(tasks, [i \in 1..Len(tasks) |-> SortKey(tasks[i])])

\* the same lambda, in cmd_list
ListKey(t) == <<t.done>> \o parse_due_key(t.due)
\* the tasks cmd_list prints, in order (none when "No tasks yet.")
cmd_list_lines(tasks) ==
    IF tasks = <<>> THEN <<>>
    ELSE sorted(tasks, [i \in 1..Len(tasks) |-> ListKey(tasks[i])])

(***************************************************************************)
(* SpecSort: one task collection is drawn and ordered for display.         *)
(***************************************************************************)
MaxSortLen == 3
Stamps == {"t0"}
SortDues ==
    { None,
      Some(<<>>),
      Some(<<"1", "4", ":", "0", "0">>),
      Some(<<"2", "P", "M">>),
      Some(<<"9", ":", "0", "5">>),
      Some(<<"s", "o", "o", "n">>) }
NewTask(id, text, due, now) ==
    [id |-> id, text |-> text, due |-> due, done |-> FALSE, created_at |-> now]

\* the collection of n tasks with the done flags and due values f gives; id = place
SortInput(n, f) ==
    [i \in 1..n |-> [NewTask(i, <<"a">>, f[i][2], "t0") EXCEPT !.done = f[i][1]]]

SortIdle == sortIn = <<>> /\ sortOut = <<>> /\ sortBy = "idle"
SortVars == <<sortIn, sortOut, sortBy>>

\* refresh_list: for task in sort_tasks(self.tasks)
SortForDisplay ==
    /\ sortBy = "none"
    /\ sortOut' = sort_tasks(sortIn)
    /\ sortBy' = "sort_tasks"
    /\ UNCHANGED sortIn

\* cmd_list on the same collection
ListForDisplay ==
    /\ sortBy = "none"
    /\ sortOut' = cmd_list_lines(sortIn)
    /\ sortBy' = "cmd_list"
    /\ UNCHANGED sortIn

(***************************************************************************)
(* The task store.  The store file is absent, holds bytes that are not     *)
(* UTF-8 ("badbytes"), text that is not JSON ("garbled", the empty file    *)
(* included), a JSON value that is not an array ("scalar", a number), or a *)
(* JSON array of tasks ("list").                                           *)
(***************************************************************************)
MaxId == 3

FileOf(kind, tasks) == [kind |-> kind, tasks |-> tasks]

\* load_tasks(): the exception it lets out, else the value it returns
load_tasks(f) ==
    CASE f.kind = "absent" -> [exc |-> "none", isList |-> TRUE, tasks |-> <<>>]
      [] f.kind = "badbytes" ->
           [exc |-> "UnicodeDecodeError", isList |-> FALSE, tasks |-> <<>>]
      [] f.kind = "garbled" -> [exc |-> "none", isList |-> TRUE, tasks |-> <<>>]
      [] f.kind = "scalar" -> [exc |-> "none", isList |-> FALSE, tasks |-> <<>>]
      [] f.kind = "list" -> [exc |-> "none", isList |-> TRUE, tasks |-> f.tasks]

\* a command that iterates over what load_tasks returned raises unless it is a list
Raises(L) == L.exc # "none" \/ ~L.isList

\* save_tasks(tasks): the file after the write
save_tasks(tasks) == FileOf("list", tasks)

Ids(tasks) == {tasks[i].id : i \in 1..Len(tasks)}
MaxOf(S) == CHOOSE x \in S : \A y \in S : y <= x
next_id_by_count(tasks) == Len(tasks) + 1
next_id(tasks) == (IF tasks = <<>> THEN 0 ELSE MaxOf(Ids(tasks))) + 1

\* the ids given to done, undone and remove: those a store can hold and one more
IdArgs == 1..(MaxId + 1)

Outcome(cmd, res, id) == [cmd |-> cmd, res |-> res, id |-> id]

\* args.due.strip() if args.due else None
AddDue(due) == IF due.isNone \/ due.s = <<>> THEN None ELSE Some(Strip(due.s))

\* the command-line arguments of add: the text, and the --due value if any
AddArgs ==
    { [text |-> <<"a">>, due |-> None],
      [text |-> <<" ", "b">>, due |-> Some(<<"9", ":", "0", "5", " ">>)] }

cmd_add(a, now) ==
    LET L == load_tasks(file)
        task == NewTask(next_id(L.tasks), Strip(a.text), AddDue(a.due), now)
    IN IF Raises(L)
       THEN /\ last' = Outcome("add", "raised", 0)
            /\ UNCHANGED file
       ELSE /\ task.id <= MaxId
            /\ file' = save_tasks(Append(L.tasks, task))
            /\ last' = Outcome("add", "ok", task.id)

CmdAdd ==
    /\ \E a \in AddArgs, now \in Stamps : cmd_add(a, now)
    /\ UNCHANGED <<ui, uiTasks>>

CmdList ==
    /\ last' = Outcome("list", IF Raises(load_tasks(file)) THEN "raised" ELSE "ok", 0)
    /\ UNCHANGED <<file, ui, uiTasks>>

\* the index of the first task with the id, 0 if there is none
FirstWithId(tasks, id) ==
    IF id \in Ids(tasks)
    THEN CHOOSE i \in 1..Len(tasks) :
            tasks[i].id = id /\ \A j \in 1..(i - 1) : tasks[j].id # id
    ELSE 0

\* the loop of cmd_done / cmd_undone: the first task with the id gets the flag
mark(tasks, id, value) ==
    [tasks EXCEPT ![FirstWithId(tasks, id)] = [@ EXCEPT !.done = value]]

cmd_mark(cmd, id, value) ==
    LET L == load_tasks(file)
    IN IF Raises(L)
       THEN /\ last' = Outcome(cmd, "raised", id)
            /\ UNCHANGED file
       ELSE IF FirstWithId(L.tasks, id) # 0
            THEN /\ file' = save_tasks(mark(L.tasks, id, value))
                 /\ last' = Outcome(cmd, "ok", id)
            ELSE /\ last' = Outcome(cmd, "notfound", id)
                 /\ UNCHANGED file

CmdDone ==
    /\ \E id \in IdArgs : cmd_mark("done", id, TRUE)
    /\ UNCHANGED <<ui, uiTasks>>

CmdUndone ==
    /\ \E id \in IdArgs : cmd_mark("undone", id, FALSE)
    /\ UNCHANGED <<ui, uiTasks>>

\* [t for t in tasks if t["id"] != id]
without_greater(tasks, id) ==
    LET keep(t) == t.id > id
    IN SelectSeq(tasks, keep)
without(tasks, id) ==
    LET keep(t) == t.id # id
    IN SelectSeq(tasks, keep)

cmd_remove(id) ==
    LET L == load_tasks(file)
        filtered == without(L.tasks, id)
    IN IF Raises(L)
       THEN /\ last' = Outcome("remove", "raised", id)
            /\ UNCHANGED file
       ELSE IF Len(filtered) = Len(L.tasks)
            THEN /\ last' = Outcome("remove", "notfound", id)
                 /\ UNCHANGED file
            ELSE /\ file' = save_tasks(filtered)
                 /\ last' = Outcome("remove", "ok", id)

CmdRemove ==
    /\ \E id \in IdArgs : cmd_remove(id)
    /\ UNCHANGED <<ui, uiTasks>>

(***************************************************************************)
(* The terminal UI (TasksApp): one in-memory copy, saved whole after every *)
(* mutation.  The highlighted item is whichever item the user moved to, so *)
(* an action acts on the task of any id shown; with nothing highlighted    *)
(* the actions return at once.                                             *)
(***************************************************************************)
\* what the user typed in the two inputs of TaskEditScreen
UiInputs ==
    { [text |-> <<"a", " ">>, due |-> <<>>],
      [text |-> <<" ", "b">>, due |-> <<" ", "9", ":", "0", "5">>] }

\* on_button_pressed: the result of Save, (text, due or None)
EditResult(inp) ==
    [text |-> Strip(inp.text),
     due |-> IF Strip(inp.due) = <<>> THEN None ELSE Some(Strip(inp.due))]

\* get_selected_task: the place in self.tasks of the first task with the
\* highlighted item's task_id
get_selected_task(task_id) == FirstWithId(uiTasks, task_id)

\* on_mount: load_tasks, then refresh_list sorts the copy
UiMount ==
    /\ ui = "off"
    /\ LET L == load_tasks(file)
       IN IF Raises(L)
          THEN /\ last' = Outcome("ui", "raised", 0)
               /\ UNCHANGED <<ui, uiTasks>>
          ELSE /\ ui' = "running"
               /\ uiTasks' = L.tasks
               /\ last' = Outcome("ui", "ok", 0)
    /\ UNCHANGED file

UiQuit ==
    /\ ui = "running"
    /\ ui' = "off"
    /\ uiTasks' = <<>>
    /\ last' = Outcome("quit", "ok", 0)
    /\ UNCHANGED file

action_toggle_task ==
    /\ ui = "running"
    /\ \E sel \in Ids(uiTasks) :
          LET i == get_selected_task(sel)
          IN /\ uiTasks' = [uiTasks EXCEPT ![i].done = ~uiTasks[i].done]
             /\ last' = Outcome("toggle", "ok", 0)
    /\ file' = save_tasks(uiTasks')
    /\ UNCHANGED ui

action_delete_task ==
    /\ ui = "running"
    /\ \E sel \in Ids(uiTasks) :
          LET i == get_selected_task(sel)
          IN /\ uiTasks' = without(uiTasks, uiTasks[i].id)
             /\ last' = Outcome("delete", "ok", 0)
    /\ file' = save_tasks(uiTasks')
    /\ UNCHANGED ui

action_add_task ==
    /\ ui = "running"
    /\ \E inp \in UiInputs, now \in Stamps :
          LET r == EditResult(inp)
              task == NewTask(next_id(uiTasks), r.text, r.due, now)
          IN /\ r.text # <<>>
             /\ task.id <= MaxId
             /\ uiTasks' = Append(uiTasks, task)
             /\ last' = Outcome("ui_add", "ok", 0)
    /\ file' = save_tasks(uiTasks')
    /\ UNCHANGED ui

action_edit_task ==
    /\ ui = "running"
    /\ \E sel \in Ids(uiTasks), inp \in UiInputs :
          LET i == get_selected_task(sel)
              r == EditResult(inp)
          IN /\ r.text # <<>>
             /\ uiTasks' = [uiTasks EXCEPT ![i].text = r.text, ![i].due = r.due]
             /\ last' = Outcome("edit", "ok", 0)
    /\ file' = save_tasks(uiTasks')
    /\ UNCHANGED ui

(***************************************************************************)
(* Spec: the store file under whole commands of the one-shot command line  *)
(* or the shell, and the actions of a terminal-UI run, in any order.       *)
(***************************************************************************)
StoreVars == <<file, ui, uiTasks, last, retired>>
StoreIdle ==
    /\ file = FileOf("absent", <<>>)
    /\ ui = "idle"
    /\ uiTasks = <<>>
    /\ last = Outcome("idle", "none", 0)
    /\ retired = {}

StoreInit ==
    /\ file \in {FileOf(k, <<>>) : k \in {"absent", "garbled", "badbytes", "scalar"}}
    /\ ui = "off"
    /\ uiTasks = <<>>
    /\ last = Outcome("none", "none", 0)
    /\ retired = {}

(***************************************************************************)
(* The workflow endpoint.  JSON values: a number, a string, null, an array *)
(* of opaque items, or an object (a function from its keys to values).     *)
(***************************************************************************)
MaxArrLen == 1
NoMembers == [k \in {} |-> 0]
JScalar(t) == [t |-> t, a |-> <<>>, o |-> NoMembers]
JArr(items) == [t |-> "arr", a |-> items, o |-> NoMembers]
JObj(members) == [t |-> "obj", a |-> <<>>, o |-> members]

Items == {1, 2}
Arrays == UNION { {JArr(f) : f \in [1..n -> Items]} : n \in 0..MaxArrLen }
NonArrays == {JScalar("str"), JScalar("null")}
ObjectsOver(K) ==
    {JObj(f) : f \in {g \in [K -> Arrays \cup NonArrays \cup {JScalar("num")}] :
                         /\ "x" \in K => g["x"] = JScalar("num")
                         /\ "tasks" \in K => g["tasks"] # JScalar("num")
                         /\ "edges" \in K => g["edges"] \notin {JScalar("num"), JScalar("null")}}}
Objects == UNION {ObjectsOver(K) : K \in SUBSET {"tasks", "edges", "x"}}

\* the bytes of a request body: not UTF-8, UTF-8 that is not JSON, or a JSON text
Body(kind, val) == [kind |-> kind, val |-> val]
PostBodies ==
    {Body("badutf8", JScalar("null")), Body("badjson", JScalar("null"))}
    \cup {Body("json", v) : v \in {JScalar("num"), JScalar("str"), JScalar("null"),
                                    JArr(<<1>>)}}
    \cup {Body("json", v) : v \in Objects}
NoBody == Body("none", JScalar("null"))

\* workflow.json: absent, a JSON document, or cut short by a failed write
DocOf(kind, val) == [kind |-> kind, val |-> val]
NoDoc == DocOf("absent", JScalar("null"))

Response(method, req, status, body) ==
    [method |-> method, req |-> req, status |-> status, body |-> body]

\* dict.get(key, default)
Get(o, key, default) == IF key \in DOMAIN o THEN o[key] ELSE default

\* _handle_get
HandleGet ==
    /\ resp' = IF docFile.kind = "absent"
               THEN Response("GET", NoBody, 404, JScalar("null"))
               ELSE IF docFile.kind # "json"
                    THEN Response("GET", NoBody, 500, JScalar("null"))
                    ELSE Response("GET", NoBody, 200, docFile.val)
    /\ UNCHANGED <<docFile, lastOk>>

\* the document _handle_post writes: {"tasks": tasks, "edges": edges}
WholePayload(payload, tasks, edges) == payload
NewDocument(payload, tasks, edges) == JObj([k \in {"tasks", "edges"} |->
                                            IF k = "tasks" THEN tasks ELSE edges])

\* _handle_post up to the write: the status it answers with (0: it raises and
\* sends nothing, 204: it goes on to write), and the document to write
post_check(b) ==
    LET tasks == Get(b.val.o, "tasks", JArr(<<>>))
        edges == Get(b.val.o, "edges", JArr(<<>>))
    IN IF b.kind = "badutf8" THEN [status |-> 0, doc |-> JScalar("null")]
       ELSE IF b.kind = "badjson" THEN [status |-> 400, doc |-> JScalar("null")]
       ELSE IF b.val.t # "obj" THEN [status |-> 0, doc |-> JScalar("null")]
       ELSE IF tasks.t # "arr" \/ edges.t # "arr"
            THEN [status |-> 400, doc |-> JScalar("null")]
       ELSE [status |-> 204, doc |-> NewDocument(b.val, tasks, edges)]

\* _handle_post, the write succeeding
HandlePost ==
    \E b \in PostBodies :
       LET c == post_check(b)
       IN /\ resp' = Response("POST", b, c.status, JScalar("null"))
          /\ IF c.status = 204
             THEN /\ docFile' = DocOf("json", c.doc)
                  /\ lastOk' = [any |-> TRUE, body |-> b]
             ELSE UNCHANGED <<docFile, lastOk>>

\* _handle_post, the write raising OSError: open() failed and the file is as it
\* was, or open() truncated it and the dump failed
HandlePostWriteFails ==
    \E b \in PostBodies, truncated \in BOOLEAN :
       /\ post_check(b).status = 204
       /\ resp' = Response("POST", b, 500, JScalar("null"))
       /\ docFile' = IF truncated THEN DocOf("partial", JScalar("null")) ELSE docFile
       /\ UNCHANGED lastOk

HttpVars == <<docFile, lastOk, resp>>
HttpIdle ==
    /\ docFile = NoDoc
    /\ lastOk = [any |-> FALSE, body |-> NoBody]
    /\ resp = Response("idle", NoBody, 0, JScalar("null"))

HttpInit ==
    /\ docFile = NoDoc
    /\ lastOk = [any |-> FALSE, body |-> NoBody]
    /\ resp = Response("none", NoBody, 0, JScalar("null"))

(***************************************************************************)
(* The specifications.                                                     *)
(***************************************************************************)
StoreRest == <<DueVars, SortVars, HttpVars>>

InitDue ==
    /\ dueCase \in DueCases
    /\ dueIn = CaseText(dueCase)
    /\ dueKey = Unset
    /\ SortIdle /\ StoreIdle /\ HttpIdle
NextDue == ParseDue /\ UNCHANGED <<SortVars, StoreVars, HttpVars>>
SpecDue == InitDue /\ [][NextDue]_vars

InitSort ==
    /\ \E n \in 0..MaxSortLen : \E f \in [1..n -> BOOLEAN \X SortDues] :
          sortIn = SortInput(n, f)
    /\ sortOut = <<>>
    /\ sortBy = "none"
    /\ DueIdle /\ StoreIdle /\ HttpIdle
NextSort ==
    \/ SortForDisplay /\ UNCHANGED <<DueVars, StoreVars, HttpVars>>
    \/ ListForDisplay /\ UNCHANGED <<DueVars, StoreVars, HttpVars>>
SpecSort == InitSort /\ [][NextSort]_vars

Init == StoreInit /\ DueIdle /\ SortIdle /\ HttpIdle
Next ==
    \/ CmdAdd /\ UNCHANGED <<retired, StoreRest>>
    \/ CmdList /\ UNCHANGED <<retired, StoreRest>>
    \/ CmdDone /\ UNCHANGED <<retired, StoreRest>>
    \/ CmdUndone /\ UNCHANGED <<retired, StoreRest>>
    \/ CmdRemove /\ UNCHANGED <<retired, StoreRest>>
    \/ UiMount /\ UNCHANGED <<retired, StoreRest>>
    \/ UiQuit /\ UNCHANGED <<retired, StoreRest>>
    \/ action_toggle_task /\ UNCHANGED <<retired, StoreRest>>
    \/ action_delete_task /\ UNCHANGED <<retired, StoreRest>>
    \/ action_add_task /\ UNCHANGED <<retired, StoreRest>>
    \/ action_edit_task /\ UNCHANGED <<retired, StoreRest>>
Spec == Init /\ [][Next]_vars

\* the commands alone, with the history of the ids that remove has removed
NextCli ==
    \/ CmdAdd /\ UNCHANGED <<retired, StoreRest>>
    \/ CmdList /\ UNCHANGED <<retired, StoreRest>>
    \/ CmdDone /\ UNCHANGED <<retired, StoreRest>>
    \/ CmdUndone /\ UNCHANGED <<retired, StoreRest>>
    \/ /\ CmdRemove
       /\ retired' = retired \cup (Ids(file.tasks) \ Ids(file'.tasks))
       /\ UNCHANGED StoreRest
SpecCli == Init /\ [][NextCli]_vars

InitHttp == HttpInit /\ DueIdle /\ SortIdle /\ StoreIdle
NextHttp ==
    \/ HandleGet /\ UNCHANGED <<DueVars, SortVars, StoreVars>>
    \/ HandlePost /\ UNCHANGED <<DueVars, SortVars, StoreVars>>
SpecHttp == InitHttp /\ [][NextHttp]_vars

NextHttpFault ==
    \/ HandleGet /\ UNCHANGED <<DueVars, SortVars, StoreVars>>
    \/ HandlePost /\ UNCHANGED <<DueVars, SortVars, StoreVars>>
    \/ HandlePostWriteFails /\ UNCHANGED <<DueVars, SortVars, StoreVars>>
SpecHttpFault == InitHttp /\ [][NextHttpFault]_vars

(***************************************************************************)
(* Properties.                                                             *)
(***************************************************************************)
Stored == file.tasks

\* C1: the ids of the tasks in the store file are pairwise distinct, whatever
\* commands and terminal-UI actions have run, in whatever order.
C1_IdsDistinct ==
    \A i, j \in 1..Len(Stored) : i # j => Stored[i].id # Stored[j].id
\* a command has added a third task to the file while the UI holds a stale copy
C1_Witness ==
    /\ ui = "running"
    /\ last = Outcome("add", "ok", 3)
    /\ Len(Stored) = 3
    /\ Len(uiTasks) = 1

\* C2 as stated: no task in the store carries an id that remove has removed,
\* that is, no add has assigned a removed id again.
C2_NeverReused ==
    \A i \in 1..Len(Stored) : Stored[i].id \notin retired
\* C2 as amended: an add assigns an id greater than every id in the store at
\* that time, so a removed id is assigned again only once no task with an
\* equal or greater id is left (removing the highest id frees it).
C2_FreshAboveStored ==
    (last.cmd = "add" /\ last.res = "ok") =>
        /\ Stored # <<>>
        /\ Stored[Len(Stored)].id = last.id
        /\ \A i \in 1..(Len(Stored) - 1) : Stored[i].id < last.id
        /\ \A r \in retired : r = last.id => \A i \in 1..(Len(Stored) - 1) : Stored[i].id < r
\* an add after a removal below the maximum: the gap is not refilled
C2_Witness ==
    /\ last.cmd = "add" /\ last.res = "ok"
    /\ \E r \in retired : r < last.id /\ r \notin Ids(Stored)
    /\ last.id \notin retired

\* C3: done and undone with an id no stored task has leave the store file as
\* it was and report not-found, whatever the file holds.
C3_MissingIdNoWrite ==
    [][(last'.cmd \in {"done", "undone"} /\ last'.id \notin Ids(Stored))
         => (file' = file /\ last'.res = "notfound")]_vars

\* C4: the display order is a stable permutation of the input with incomplete
\* tasks first and, within each group, parseable due times (by ascending
\* minute of day), then unparseable due strings, then no due time.
DueClass(t) ==
    LET rank == parse_due_key(t.due)[1]
    IN IF rank = RankNoDue THEN 3 ELSE IF rank = RankUnparsed THEN 2 ELSE 1
SameKey(a, b) == a.done = b.done /\ parse_due_key(a.due) = parse_due_key(b.due)
PlaceOf(t) == CHOOSE k \in 1..Len(sortOut) : sortOut[k] = t
C4_DisplayOrder ==
    sortBy # "none" =>
        /\ Len(sortOut) = Len(sortIn)
        /\ \A i \in 1..Len(sortIn) : \E k \in 1..Len(sortOut) : sortOut[k] = sortIn[i]
        /\ \A i, j \in 1..Len(sortIn) :
              (i < j /\ SameKey(sortIn[i], sortIn[j]))
                 => PlaceOf(sortIn[i]) < PlaceOf(sortIn[j])
        /\ \A k, l \in 1..Len(sortOut) :
              k < l =>
                 /\ sortOut[k].done => sortOut[l].done
                 /\ sortOut[k].done = sortOut[l].done
                       => /\ DueClass(sortOut[k]) <= DueClass(sortOut[l])
                          /\ (DueClass(sortOut[k]) = 1 /\ DueClass(sortOut[l]) = 1)
                                => parse_due_key(sortOut[k].due)[1]
                                      <= parse_due_key(sortOut[l].due)[1]
\* three tasks were reordered, two of them with equal keys, one completed first
C4_Witness ==
    /\ sortBy = "sort_tasks"
    /\ Len(sortIn) = 3
    /\ sortIn[1].done /\ ~sortIn[2].done /\ ~sortIn[3].done
    /\ SameKey(sortIn[2], sortIn[3])
    /\ sortOut = <<sortIn[2], sortIn[3], sortIn[1]>>

\* C5: the rank is hour24*60+minute (within 0..1439) for a due string written
\* in one of the three clock formats, 999999 for an empty or absent value and
\* 999998 for any other string.
Hour24(c) ==
    IF c.kind = "h24" THEN c.h ELSE (c.h % 12) + (IF c.pm THEN 12 ELSE 0)
C5_Rank ==
    dueKey # Unset =>
        CASE dueCase.kind \in {"h24", "h12m", "h12"} ->
               /\ dueKey[1] = Hour24(dueCase) * 60 + dueCase.m
               /\ dueKey[1] \in 0..1439
          [] dueCase.kind \in {"absent", "empty"} -> dueKey[1] = 999999
          [] dueCase.kind = "junk" -> dueKey[1] = 999998
\* "2:30pm" was parsed to 870
C5_Witness ==
    /\ dueIn = Some(<<"2", ":", "3", "0", "p", "m">>)
    /\ dueKey[1] = 870

\* C6: load never raises and gives a task collection, the empty one when the
\* file is absent or is not the store's JSON task list; no command run on
\* such a file raises.
C6_LoadNeverRaises ==
    LET L == load_tasks(file)
    IN /\ L.exc = "none"
       /\ L.isList
       /\ file.kind # "list" => L.tasks = <<>>
       /\ last.res # "raised"

\* C7: a GET answers 404 while no POST has been answered 204, and otherwise 200
\* with exactly {tasks, edges} of the latest POST answered 204, a missing key
\* counting as an empty array.
SavedPart(key) ==
    LET o == lastOk.body.val.o
    IN IF key \in DOMAIN o THEN o[key] ELSE JArr(<<>>)
BadBody(b) ==
    \/ b.kind \in {"badutf8", "badjson"}
    \/ /\ b.kind = "json"
       /\ \E k \in {"tasks", "edges"} \cap DOMAIN b.val.o : b.val.o[k].t # "arr"
C8_BadRequest ==
    [][(resp'.method = "POST" /\ BadBody(resp'.req))
         => (resp'.status = 400 /\ docFile' = docFile)]_vars

\* C9: done, undone and remove with an id some stored task has persist the
\* loaded collection changed only in that task's done flag, or without that
\* task; every other task and the order are kept.
C9_Frame ==
    [][(last'.cmd \in {"done", "undone", "remove"} /\ last'.id \in Ids(Stored))
         => /\ last'.res = "ok"
            /\ file'.kind = "list"
            /\ IF last'.cmd = "remove"
               THEN \E k \in 1..Len(Stored) :
                       /\ Stored[k].id = last'.id
                       /\ file'.tasks = SubSeq(Stored, 1, k - 1)
                                          \o SubSeq(Stored, k + 1, Len(Stored))
               ELSE /\ Len(file'.tasks) = Len(Stored)
                    /\ \A i \in 1..Len(Stored) :
                          file'.tasks[i] =
                             IF Stored[i].id = last'.id
                             THEN [Stored[i] EXCEPT !.done = (last'.cmd = "done")]
                             ELSE Stored[i]]_vars
\* the middle task of three was removed after the first had been marked done
C9_Witness ==
    /\ last = Outcome("remove", "ok", 2)
    /\ Ids(Stored) = {1, 3}
    /\ Stored[1].done

\* C10: every POST ends with one response: 204 with the document replaced, or
\* 400 or 500 with workflow.json as it was.
C10_AlwaysAnswers ==
    [][resp'.method = "POST"
         => \/ resp'.status = 204 /\ docFile'.kind = "json"
            \/ resp'.status \in {400, 500} /\ docFile' = docFile]_vars

====
